---- MODULE Spec2Model ----
(***************************************************************************)
(* Model of the salt execution module cachet.py: the parameter schema,     *)
(* the argument builder, the status checks, the request executor and the   *)
(* catalog of resource operations built on them.                           *)
(*                                                                         *)
(* Python values are tagged records; Python dicts are functions whose      *)
(* domain is the set of keys.  One behaviour is one invocation: the        *)
(* module keeps no state between invocations.                              *)
(***************************************************************************)
EXTENDS Integers, Sequences, FiniteSets, TLC

VARIABLES
    pc,        \* "idle" before the invocation, "done" after it
    config,    \* the host's configuration: key -> value (what config.get answers)
    call,      \* the invocation: the function called and its arguments
    response,  \* what the HTTP transport answers to a request of this invocation
    requests,  \* the requests handed to the HTTP transport, in order
    outcome    \* how the invocation ended: a returned value or a raised exception

vars == <<pc, config, call, response, requests, outcome>>

----------------------------------------------------------------------------
(* Bounds *)

MaxStatus == 5
MaxId == 2

----------------------------------------------------------------------------
(* Python values *)

PyNone == [t |-> "None"]
PyInt(n) == [t |-> "int", v |-> n]
PyBool(b) == [t |-> "bool", v |-> b]
PyStr(s) == [t |-> "str", v |-> s]

\* a URL string, held parsed: scheme and authority, then the path split at "/"
PyUrl(h, p) == [t |-> "url", host |-> h, segs |-> p]

\* Python truth value of a value
Truthy(x) ==
    CASE x.t = "None" -> FALSE
      [] x.t = "bool" -> x.v
      [] x.t = "int" -> x.v # 0
      [] x.t = "str" -> x.v # ""
      [] OTHER -> TRUE

\* Python's `a or b`
PyOr(a, b) == IF Truthy(a) THEN a ELSE b

\* the empty dict
EmptyDict == << >>

\* d with d[k] = v set
DictSet(d, k, v) == [x \in (DOMAIN d) \cup {k} |-> IF x = k THEN v ELSE d[x]]

\* '%d' % n
FormatD(n) == ToString(n)

----------------------------------------------------------------------------
(* The parameter schema.  Each operation schema is the sequence of its     *)
(* fields in declaration order, which is the order .items() yields.        *)

Req(k) == [name |-> k, mandatory |-> TRUE, hasDefault |-> FALSE, default |-> PyNone]
ReqDef(k, d) == [name |-> k, mandatory |-> TRUE, hasDefault |-> TRUE, default |-> d]
Opt(k) == [name |-> k, mandatory |-> FALSE, hasDefault |-> FALSE, default |-> PyNone]
OptDef(k, d) == [name |-> k, mandatory |-> FALSE, hasDefault |-> TRUE, default |-> d]

CACHET_PARAMS_DEFINITION ==
    ( "components" :>
        [ add |-> << Req("name"),
                     Req("status"),
                     OptDef("description", PyNone),
                     OptDef("link", PyNone),
                     OptDef("order", PyInt(0)),
                     OptDef("group_id", PyNone),
                     OptDef("enabled", PyBool(TRUE)) >>,
          update |-> << Opt("name"),
                        Opt("status"),
                        OptDef("link", PyNone),
                        OptDef("order", PyNone),
                        OptDef("group_id", PyNone) >> ] ) @@
    ( "components.groups" :>
        [ add |-> << Req("name"),
                     OptDef("order", PyInt(0)) >>,
          update |-> << OptDef("name", PyNone),
                        OptDef("order", PyNone) >> ] ) @@
    ( "incidents" :>
        [ add |-> << Req("name"),
                     Req("message"),
                     Req("status"),
                     ReqDef("visible", PyInt(1)),
                     OptDef("component_id", PyNone),
                     OptDef("component_status", PyNone),
                     OptDef("notify", PyBool(FALSE)) >>,
          update |-> << Opt("name"),
                        Opt("message"),
                        Opt("status"),
                        OptDef("visible", PyInt(1)),
                        Opt("component_id"),
                        Opt("notify") >> ] ) @@
    ( "metrics" :>
        [ add |-> << Req("name"),
                     Req("suffix"),
                     Req("description"),
                     ReqDef("default_value", PyInt(0)),
                     OptDef("display_chart", PyInt(1)) >> ] ) @@
    ( "metrics.points" :>
        [ add |-> << Req("value") >> ] )

----------------------------------------------------------------------------
(* How a function ends *)

Return(v) == [kind |-> "return", value |-> v]
Raise(e) == [kind |-> "raise", exc |-> e]
NoOutcome == [kind |-> "none"]

----------------------------------------------------------------------------
(* _build_args *)

\* one turn of the loop of _build_args: what is done for field `field`
\* (the pair k, config of the loop) given the caller's kwargs
build_field_all_defaults(field, kwargs) ==
    IF field.mandatory
    THEN IF field.name \notin DOMAIN kwargs
         THEN IF field.hasDefault
              THEN [act |-> "set", v |-> field.default]
              ELSE [act |-> "fail"]
         ELSE [act |-> "set", v |-> kwargs[field.name]]
    ELSE IF field.name \in DOMAIN kwargs
         THEN [act |-> "set", v |-> kwargs[field.name]]
         ELSE IF field.hasDefault
              THEN [act |-> "set", v |-> field.default]
              ELSE [act |-> "skip"]

build_field_skip_missing(field, kwargs) ==
    IF field.mandatory
    THEN IF field.name \notin DOMAIN kwargs
         THEN IF field.hasDefault
              THEN [act |-> "set", v |-> field.default]
              ELSE [act |-> "skip"]
         ELSE [act |-> "set", v |-> kwargs[field.name]]
    ELSE IF field.name \in DOMAIN kwargs
         THEN [act |-> "set", v |-> kwargs[field.name]]
         ELSE IF field.hasDefault /\ Truthy(field.default)
              THEN [act |-> "set", v |-> field.default]
              ELSE [act |-> "skip"]

build_field(field, kwargs) ==
    IF field.mandatory
    THEN IF field.name \notin DOMAIN kwargs
         THEN IF field.hasDefault
              THEN [act |-> "set", v |-> field.default]
              ELSE [act |-> "fail"]
         ELSE [act |-> "set", v |-> kwargs[field.name]]
    ELSE IF field.name \in DOMAIN kwargs
         THEN [act |-> "set", v |-> kwargs[field.name]]
         ELSE IF field.hasDefault /\ Truthy(field.default)
              THEN [act |-> "set", v |-> field.default]
              ELSE [act |-> "skip"]

\* 'Mandatory params %s is missing' % k
MissingMessage(k) == PyStr("Mandatory params " \o k \o " is missing")

RECURSIVE build_loop(_, _, _, _)
\* the loop of _build_args from the i-th field on, args being the dict built so far
build_loop(fields, kwargs, i, args) ==
    IF i > Len(fields)
    THEN Return([res |-> PyBool(TRUE), data |-> args])
    ELSE LET step == build_field(fields[i], kwargs)
         IN  CASE step.act = "fail" ->
                    Return([res |-> PyBool(FALSE), message |-> MissingMessage(fields[i].name)])
               [] step.act = "set" ->
                    build_loop(fields, kwargs, i + 1, DictSet(args, fields[i].name, step.v))
               [] OTHER ->
                    build_loop(fields, kwargs, i + 1, args)

_build_args(obj, method, kwargs) ==
    IF obj \notin DOMAIN CACHET_PARAMS_DEFINITION
    THEN Raise("Exception")
    ELSE IF method \notin DOMAIN CACHET_PARAMS_DEFINITION[obj]
    THEN Raise("Exception")
    ELSE build_loop(CACHET_PARAMS_DEFINITION[obj][method], kwargs, 1, EmptyDict)

----------------------------------------------------------------------------
(* Status checks *)

\* int(data): the integer, or the exception int() raises
IntOf(data) ==
    CASE data.t = "int" -> [ok |-> TRUE, v |-> data.v]
      [] data.t = "bool" -> [ok |-> TRUE, v |-> IF data.v THEN 1 ELSE 0]
      [] data.t = "None" -> [ok |-> FALSE, exc |-> "TypeError"]
      [] OTHER -> [ok |-> FALSE, exc |-> "ValueError"]

\* the exception _check_component_status raises, or "" when it returns
_check_component_status(data) ==
    LET status == IntOf(data)
    IN  IF ~status.ok THEN status.exc
        ELSE IF status.v < 1 \/ status.v > 4 THEN "Exception" ELSE ""

\* the exception _check_incident_status raises, or "" when it returns
_check_incident_status(data) ==
    LET status == IntOf(data)
    IN  IF ~status.ok THEN status.exc
        ELSE IF status.v < 0 \/ status.v > 4 THEN "Exception" ELSE ""

----------------------------------------------------------------------------
(* URLs *)

\* a URL reference: a path split at "/", absolute when it starts with "/"
AbsRef(p) == [abs |-> TRUE, segs |-> p]
RelRef(p) == [abs |-> FALSE, segs |-> p]

\* s without its last element
Front(s) == IF Len(s) = 0 THEN s ELSE SubSeq(s, 1, Len(s) - 1)

\* urljoin(base, ref) for a reference made of a path only: an absolute path
\* replaces the path of base, a relative one replaces its last segment
_urljoin(base, ref) ==
    IF ref.segs = << >> THEN base
    ELSE IF ref.abs THEN PyUrl(base.host, ref.segs)
    ELSE PyUrl(base.host, Front(base.segs) \o ref.segs)

\* '/api/v1/'
ApiPrefix == AbsRef(<<"api", "v1", "">>)

----------------------------------------------------------------------------
(* _query *)

IsDict(x) == "t" \notin DOMAIN x

NoKeyMessage == PyStr("No Cachet api key found.")

\* the configuration part of _query: the base URL and the token it will use,
\* or the failure it returns before any request
resolve_token_always(api_url, api_token, auth, cfg) ==
    LET url == IF ~Truthy(api_url)
               THEN PyOr(cfg["cachet.api_url"], cfg["cachet:api_url"])
               ELSE api_url
        token == IF ~Truthy(api_token)
                 THEN PyOr(cfg["cachet.api_token"], cfg["cachet:api_token"])
                 ELSE api_token
    IN  IF ~Truthy(url) THEN [ok |-> FALSE]
        ELSE IF ~Truthy(token) THEN [ok |-> FALSE]
        ELSE [ok |-> TRUE, api_url |-> url, api_token |-> token]

resolve(api_url, api_token, auth, cfg) ==
    LET url == IF ~Truthy(api_url)
               THEN PyOr(cfg["cachet.api_url"], cfg["cachet:api_url"])
               ELSE api_url
        token == IF auth /\ ~Truthy(api_token)
                 THEN PyOr(cfg["cachet.api_token"], cfg["cachet:api_token"])
                 ELSE api_token
    IN  IF ~Truthy(url) THEN [ok |-> FALSE]
        ELSE IF auth /\ ~Truthy(token) THEN [ok |-> FALSE]
        ELSE [ok |-> TRUE, api_url |-> url, api_token |-> token]

\* the request _query hands to salt.utils.http.query
build_request(function, api_url, api_token, auth, args, method, header_dict, data) ==
    LET base_url == _urljoin(api_url, ApiPrefix)
        url == _urljoin(base_url, RelRef(function))
        query_params == IF IsDict(args) THEN args ELSE EmptyDict
        headers0 == IF header_dict = PyNone THEN EmptyDict ELSE header_dict
        headers == IF auth /\ "X-Cachet-Token" \notin DOMAIN headers0
                   THEN DictSet(headers0, "X-Cachet-Token", api_token)
                   ELSE headers0
    IN  [ url |-> url,
          method |-> method,
          params |-> query_params,
          data |-> data,
          header_dict |-> headers ]

OK == 200
NO_CONTENT == 204

interpret_200_ignores_error(result) ==
    LET status == IF "status" \in DOMAIN result THEN result.status ELSE 0
    IN  IF status = OK
        THEN IF "dict" \notin DOMAIN result THEN Raise("KeyError")
             ELSE Return([message |-> IF "data" \in DOMAIN result.dict
                                      THEN result.dict.data ELSE PyNone,
                          res |-> PyBool(TRUE)])
        ELSE IF status = NO_CONTENT
        THEN Return(PyBool(TRUE))
        ELSE IF "error" \in DOMAIN result
             THEN Return([message |-> result.error, res |-> PyBool(FALSE)])
             ELSE Raise("UnboundLocalError")

\* what _query makes of the transport's answer `result`
interpret(result) ==
    LET status == IF "status" \in DOMAIN result THEN result.status ELSE 0
    IN  IF status = OK
        THEN IF "dict" \notin DOMAIN result THEN Raise("KeyError")
             ELSE LET _result == result.dict
                  IN  IF "error" \in DOMAIN _result
                      THEN Return([message |-> _result.error, res |-> PyBool(FALSE)])
                      ELSE Return([message |-> IF "data" \in DOMAIN _result
                                               THEN _result.data ELSE PyNone,
                                   res |-> PyBool(TRUE)])
        ELSE IF status = NO_CONTENT
        THEN Return(PyBool(TRUE))
        ELSE IF "error" \in DOMAIN result
             THEN Return([message |-> result.error, res |-> PyBool(FALSE)])
             ELSE Raise("UnboundLocalError")

\* _query: the requests it issues and how it ends, the transport answering `result`
_query(function, api_url, api_token, auth, args, method, header_dict, data, cfg, result) ==
    LET r == resolve(api_url, api_token, auth, cfg)
    IN  IF ~r.ok
        THEN [ requests |-> << >>,
               outcome |-> Return([message |-> NoKeyMessage, res |-> PyBool(FALSE)]) ]
        ELSE [ requests |-> << build_request(function, r.api_url, r.api_token, auth,
                                             args, method, header_dict, data) >>,
               outcome |-> interpret(result) ]

----------------------------------------------------------------------------
(* The resource operations.  Each yields the requests it issues and how it  *)
(* ends, under configuration cfg and with the transport answering result.   *)

\* the operation ends with outcome o before any request
Ended(o) == [requests |-> << >>, outcome |-> o]

ping(api_url, cfg, result) ==
    _query(<<"ping">>, api_url, PyNone, FALSE, PyNone, "GET", PyNone, PyNone, cfg, result)

get_components(id, api_url, api_token, cfg, result) ==
    LET function == IF Truthy(id) THEN <<"components">> \o <<FormatD(id.v)>> ELSE <<"components">>
    IN  _query(function, api_url, api_token, FALSE, PyNone, "GET", PyNone, PyNone, cfg, result)

add_component_put(api_url, api_token, kwargs, cfg, result) ==
    LET test == _build_args("components", "add", kwargs)
    IN  IF test.kind = "raise" THEN Ended(test)
        ELSE IF ~Truthy(test.value.res) THEN Ended(Return(test.value))
        ELSE LET args == test.value.data
             IN  IF "status" \notin DOMAIN args THEN Ended(Raise("KeyError"))
                 ELSE LET fault == _check_component_status(args["status"])
                      IN  IF fault # "" THEN Ended(Raise(fault))
                          ELSE _query(<<"components">>, api_url, api_token, TRUE, args,
                                      "PUT", PyNone, PyNone, cfg, result)

add_component(api_url, api_token, kwargs, cfg, result) ==
    LET test == _build_args("components", "add", kwargs)
    IN  IF test.kind = "raise" THEN Ended(test)
        ELSE IF ~Truthy(test.value.res) THEN Ended(Return(test.value))
        ELSE LET args == test.value.data
             IN  IF "status" \notin DOMAIN args THEN Ended(Raise("KeyError"))
                 ELSE LET fault == _check_component_status(args["status"])
                      IN  IF fault # "" THEN Ended(Raise(fault))
                          ELSE _query(<<"components">>, api_url, api_token, TRUE, args,
                                      "POST", PyNone, PyNone, cfg, result)

update_component(id, api_url, api_token, kwargs, cfg, result) ==
    LET test == _build_args("components", "update", kwargs)
    IN  IF test.kind = "raise" THEN Ended(test)
        ELSE IF ~Truthy(test.value.res) THEN Ended(Return(test.value))
        ELSE LET args == test.value.data
             IN  IF "status" \notin DOMAIN args THEN Ended(Raise("KeyError"))
                 ELSE LET fault == IF Truthy(args["status"])
                                   THEN _check_component_status(args["status"])
                                   ELSE ""
                      IN  IF fault # "" THEN Ended(Raise(fault))
                          ELSE _query(<<"components", FormatD(id.v)>>, api_url, api_token,
                                      TRUE, args, "PUT", PyNone, PyNone, cfg, result)

delete_component(id, api_url, api_token, cfg, result) ==
    LET function == <<"components", FormatD(id.v)>>
    IN  _query(function, api_url, api_token, TRUE, PyNone, "DELETE", PyNone, PyNone, cfg, result)

get_components_groups(id, api_url, api_token, cfg, result) ==
    LET function == IF Truthy(id) THEN <<"components", "groups">> \o <<FormatD(id.v)>> ELSE <<"components", "groups">>
    IN  _query(function, api_url, api_token, FALSE, PyNone, "GET", PyNone, PyNone, cfg, result)

add_component_group(api_url, api_token, kwargs, cfg, result) ==
    LET test == _build_args("components.groups", "add", kwargs)
    IN  IF test.kind = "raise" THEN Ended(test)
        ELSE IF ~Truthy(test.value.res) THEN Ended(Return(test.value))
        ELSE _query(<<"components", "groups">>, api_url, api_token, TRUE,
                    test.value.data, "POST", PyNone, PyNone, cfg, result)

update_component_group(id, api_url, api_token, kwargs, cfg, result) ==
    LET test == _build_args("components.groups", "update", kwargs)
    IN  IF test.kind = "raise" THEN Ended(test)
        ELSE IF ~Truthy(test.value.res) THEN Ended(Return(test.value))
        ELSE _query(<<"components", "groups", FormatD(id.v)>>, api_url, api_token, TRUE,
                    test.value.data, "PUT", PyNone, PyNone, cfg, result)

delete_component_group(id, api_url, api_token, cfg, result) ==
    LET function == <<"components", "groups", FormatD(id.v)>>
    IN  _query(function, api_url, api_token, TRUE, PyNone, "DELETE", PyNone, PyNone, cfg, result)

get_incidents(id, api_url, api_token, cfg, result) ==
    LET function == IF Truthy(id) THEN <<"incidents">> \o <<FormatD(id.v)>> ELSE <<"incidents">>
    IN  _query(function, api_url, api_token, FALSE, PyNone, "GET", PyNone, PyNone, cfg, result)

add_incident(api_url, api_token, kwargs, cfg, result) ==
    LET test == _build_args("incidents", "add", kwargs)
    IN  IF test.kind = "raise" THEN Ended(test)
        ELSE IF ~Truthy(test.value.res) THEN Ended(Return(test.value))
        ELSE LET args == test.value.data
             IN  IF "status" \notin DOMAIN args THEN Ended(Raise("KeyError"))
                 ELSE LET fault1 == _check_incident_status(args["status"])
                          fault2 == IF "component_status" \in DOMAIN args
                                       /\ Truthy(args["component_status"])
                                    THEN _check_component_status(args["component_status"])
                                    ELSE ""
                      IN  IF fault1 # "" THEN Ended(Raise(fault1))
                          ELSE IF fault2 # "" THEN Ended(Raise(fault2))
                          ELSE _query(<<"incidents">>, api_url, api_token, TRUE, args,
                                      "POST", PyNone, PyNone, cfg, result)

update_incident(id, api_url, api_token, kwargs, cfg, result) ==
    LET test == _build_args("incidents", "update", kwargs)
    IN  IF test.kind = "raise" THEN Ended(test)
        ELSE IF ~Truthy(test.value.res) THEN Ended(Return(test.value))
        ELSE LET args == test.value.data
             IN  IF "status" \notin DOMAIN args THEN Ended(Raise("KeyError"))
                 ELSE LET fault == IF Truthy(args["status"])
                                   THEN _check_incident_status(args["status"])
                                   ELSE ""
                      IN  IF fault # "" THEN Ended(Raise(fault))
                          ELSE _query(<<"incidents", FormatD(id.v)>>, api_url, api_token,
                                      TRUE, args, "PUT", PyNone, PyNone, cfg, result)

delete_incident(id, api_url, api_token, cfg, result) ==
    LET function == <<"incidents", FormatD(id.v)>>
    IN  _query(function, api_url, api_token, TRUE, PyNone, "DELETE", PyNone, PyNone, cfg, result)

get_metrics(id, api_url, api_token, cfg, result) ==
    LET function == IF Truthy(id) THEN <<"metrics">> \o <<FormatD(id.v)>> ELSE <<"metrics">>
    IN  _query(function, api_url, api_token, FALSE, PyNone, "GET", PyNone, PyNone, cfg, result)

add_metric(api_url, api_token, kwargs, cfg, result) ==
    LET test == _build_args("metrics", "add", kwargs)
    IN  IF test.kind = "raise" THEN Ended(test)
        ELSE IF ~Truthy(test.value.res) THEN Ended(Return(test.value))
        ELSE _query(<<"metrics">>, api_url, api_token, TRUE,
                    test.value.data, "POST", PyNone, PyNone, cfg, result)

delete_metric(id, api_url, api_token, cfg, result) ==
    LET function == <<"metrics", FormatD(id.v)>>
    IN  _query(function, api_url, api_token, TRUE, PyNone, "DELETE", PyNone, PyNone, cfg, result)

\* with an id the path is built from the undefined name metric_ic
get_metrics_points(metric_id, id, api_url, api_token, cfg, result) ==
    IF Truthy(id)
    THEN Ended(Raise("NameError"))
    ELSE _query(<<"metrics", FormatD(metric_id.v), "points">>, api_url, api_token,
                FALSE, PyNone, "GET", PyNone, PyNone, cfg, result)

add_metric_point(metric_id, api_url, api_token, kwargs, cfg, result) ==
    LET test == _build_args("metrics.points", "add", kwargs)
    IN  IF test.kind = "raise" THEN Ended(test)
        ELSE IF ~Truthy(test.value.res) THEN Ended(Return(test.value))
        ELSE _query(<<"metrics", FormatD(metric_id.v), "points">>, api_url, api_token, TRUE,
                    test.value.data, "POST", PyNone, PyNone, cfg, result)

delete_metric_point(metric_id, id, api_url, api_token, cfg, result) ==
    LET function == <<"metrics", FormatD(metric_id.v), "points", FormatD(id.v)>>
    IN  _query(function, api_url, api_token, TRUE, PyNone, "DELETE", PyNone, PyNone, cfg, result)

----------------------------------------------------------------------------
(* The environment and the inputs *)

ConfiguredUrl == PyUrl("https://status.example.com", << >>)
ConfiguredUrlColon == PyUrl("https://status.example.com", <<"cachet", "">>)
ConfiguredToken == PyStr("config-token")
ConfiguredTokenColon == PyStr("config-token-colon")
OverrideUrl == PyUrl("https://override.example.com", << >>)
OverrideToken == PyStr("override-token")

ConfigKeys == {"cachet.api_url", "cachet:api_url", "cachet.api_token", "cachet:api_token"}

ConfigValue(k) ==
    CASE k = "cachet.api_url" -> ConfiguredUrl
      [] k = "cachet:api_url" -> ConfiguredUrlColon
      [] k = "cachet.api_token" -> ConfiguredToken
      [] k = "cachet:api_token" -> ConfiguredTokenColon

\* the configuration in which exactly the keys of `set` have a value
ConfigWith(set) == [k \in ConfigKeys |-> IF k \in set THEN ConfigValue(k) ELSE PyNone]

Configs == {ConfigWith(set) : set \in SUBSET ConfigKeys}

\* the configurations the resource operations are run under
CatalogConfigs ==
    { ConfigWith({}),
      ConfigWith({"cachet.api_url", "cachet:api_token"}),
      ConfigWith({"cachet:api_url", "cachet.api_token"}) }

Payload == PyStr("payload")
Boom == PyStr("boom")
TransportError == PyStr("HTTP 500: Internal Server Error")

\* decoded bodies
Bodies ==
    { EmptyDict,
      [data |-> Payload],
      [error |-> Boom],
      [data |-> Payload, error |-> Boom],
      [meta |-> PyStr("m")] }

Statuses == {OK, NO_CONTENT, 404, 500}

\* the dict salt.utils.http.query returns
Result(hasStatus, status, hasDict, body, hasError) ==
    [ k \in (IF hasStatus THEN {"status"} ELSE {})
            \cup (IF hasDict THEN {"dict"} ELSE {})
            \cup (IF hasError THEN {"error"} ELSE {})
      |-> CASE k = "status" -> status
            [] k = "dict" -> body
            [] k = "error" -> TransportError ]

Responses ==
    { Result(TRUE, st, hasDict, body, hasError) :
        st \in Statuses, hasDict \in BOOLEAN, body \in Bodies, hasError \in BOOLEAN }
    \cup { Result(FALSE, 0, FALSE, EmptyDict, hasError) : hasError \in BOOLEAN }

\* the answers the resource operations are run against
CatalogResponses ==
    { Result(TRUE, OK, TRUE, [data |-> Payload], FALSE),
      Result(TRUE, OK, TRUE, [error |-> Boom], FALSE),
      Result(TRUE, NO_CONTENT, FALSE, EmptyDict, FALSE),
      Result(TRUE, 500, TRUE, [error |-> Boom], FALSE),
      Result(TRUE, 500, FALSE, EmptyDict, TRUE) }

Ids == {PyInt(n) : n \in 0..MaxId}
OptionalIds == {PyNone} \cup Ids
\* statuses a caller supplies, below and above both valid ranges included
StatusInputs == {PyInt(n) : n \in (-1)..MaxStatus}
UrlOverrides == {PyNone, OverrideUrl}
TokenOverrides == {PyNone, OverrideToken}

\* the values a caller of a resource operation supplies for field k
CatalogValues(k) ==
    CASE k \in {"status", "component_status"} -> StatusInputs
      [] k = "name" -> {PyStr("API")}
      [] k \in {"message", "description", "link", "suffix"} -> {PyStr("text")}
      [] k \in {"enabled", "notify"} -> {PyBool(FALSE)}
      [] k \in {"group_id", "component_id"} -> {PyInt(1)}
      [] k = "value" -> {PyInt(7)}
      [] OTHER -> {PyInt(0)}

\* the values a caller of _build_args supplies, falsy and truthy
BuildValues == {PyInt(0), PyStr("x")}

FieldNames(fields) == {fields[i].name : i \in 1..Len(fields)}

HasSchema(obj, method) ==
    /\ obj \in DOMAIN CACHET_PARAMS_DEFINITION
    /\ method \in DOMAIN CACHET_PARAMS_DEFINITION[obj]

RECURSIVE Dicts(_, _)
\* every dict whose keys are among `keys`, the value of key k being in vals[k]
Dicts(keys, vals) ==
    IF keys = {} THEN {EmptyDict}
    ELSE LET k == CHOOSE x \in keys : TRUE
             rest == Dicts(keys \ {k}, vals)
         IN  rest \cup {DictSet(d, k, v) : d \in rest, v \in vals[k]}

\* the keyword arguments a resource operation on (obj, method) is called with
CatalogKwargs(obj, method) ==
    LET keys == FieldNames(CACHET_PARAMS_DEFINITION[obj][method])
    IN  Dicts(keys, [k \in keys |-> CatalogValues(k)])

\* the keyword arguments _build_args is called with, one of them outside the schema
BuildKwargs(obj, method) ==
    IF HasSchema(obj, method)
    THEN LET keys == FieldNames(CACHET_PARAMS_DEFINITION[obj][method]) \cup {"bogus"}
         IN  Dicts(keys, [k \in keys |-> BuildValues])
    ELSE {EmptyDict}

----------------------------------------------------------------------------
(* One invocation *)

NoCall == [fn |-> "none"]

\* the invocation c takes place, with effect eff
Invoke(c, eff) ==
    /\ pc' = "done"
    /\ call' = c
    /\ requests' = eff.requests
    /\ outcome' = eff.outcome
    /\ UNCHANGED <<config, response>>

BuildArgs ==
    /\ pc = "idle"
    /\ \E obj \in DOMAIN CACHET_PARAMS_DEFINITION \cup {"users"},
       method \in {"add", "update", "delete"} :
      \E kwargs \in BuildKwargs(obj, method) :
        Invoke([fn |-> "_build_args", obj |-> obj, method |-> method, kwargs |-> kwargs],
               Ended(_build_args(obj, method, kwargs)))

Query ==
    /\ pc = "idle"
    /\ \E function \in {<<"ping">>},
       api_url \in {PyNone, PyStr(""), OverrideUrl},
       api_token \in TokenOverrides,
       auth \in BOOLEAN,
       args \in {PyNone, [name |-> PyStr("API")]},
       method \in {"GET"},
       header_dict \in {PyNone, "X-Cachet-Token" :> PyStr("caller-token")} :
        Invoke([fn |-> "_query", function |-> function, api_url |-> api_url,
                api_token |-> api_token, auth |-> auth, args |-> args,
                method |-> method, header_dict |-> header_dict, data |-> PyNone],
               _query(function, api_url, api_token, auth, args, method, header_dict,
                      PyNone, config, response))

Ping ==
    /\ pc = "idle"
    /\ \E api_url \in UrlOverrides :
        Invoke([fn |-> "ping", api_url |-> api_url],
               ping(api_url, config, response))

GetComponents ==
    /\ pc = "idle"
    /\ \E id \in OptionalIds, api_url \in UrlOverrides, api_token \in TokenOverrides :
        Invoke([fn |-> "get_components", id |-> id, api_url |-> api_url, api_token |-> api_token],
               get_components(id, api_url, api_token, config, response))

AddComponent ==
    /\ pc = "idle"
    /\ \E api_url \in UrlOverrides, api_token \in TokenOverrides,
       kwargs \in CatalogKwargs("components", "add") :
        Invoke([fn |-> "add_component", obj |-> "components", method |-> "add",
                api_url |-> api_url, api_token |-> api_token, kwargs |-> kwargs],
               add_component(api_url, api_token, kwargs, config, response))

UpdateComponent ==
    /\ pc = "idle"
    /\ \E id \in Ids, api_url \in UrlOverrides, api_token \in TokenOverrides,
       kwargs \in CatalogKwargs("components", "update") :
        Invoke([fn |-> "update_component", obj |-> "components", method |-> "update",
                id |-> id, api_url |-> api_url, api_token |-> api_token, kwargs |-> kwargs],
               update_component(id, api_url, api_token, kwargs, config, response))

DeleteComponent ==
    /\ pc = "idle"
    /\ \E id \in Ids, api_url \in UrlOverrides, api_token \in TokenOverrides :
        Invoke([fn |-> "delete_component", id |-> id, api_url |-> api_url, api_token |-> api_token],
               delete_component(id, api_url, api_token, config, response))

GetComponentsGroups ==
    /\ pc = "idle"
    /\ \E id \in OptionalIds, api_url \in UrlOverrides, api_token \in TokenOverrides :
        Invoke([fn |-> "get_components_groups", id |-> id, api_url |-> api_url,
                api_token |-> api_token],
               get_components_groups(id, api_url, api_token, config, response))

AddComponentGroup ==
    /\ pc = "idle"
    /\ \E api_url \in UrlOverrides, api_token \in TokenOverrides,
       kwargs \in CatalogKwargs("components.groups", "add") :
        Invoke([fn |-> "add_component_group", obj |-> "components.groups", method |-> "add",
                api_url |-> api_url, api_token |-> api_token, kwargs |-> kwargs],
               add_component_group(api_url, api_token, kwargs, config, response))

UpdateComponentGroup ==
    /\ pc = "idle"
    /\ \E id \in Ids, api_url \in UrlOverrides, api_token \in TokenOverrides,
       kwargs \in CatalogKwargs("components.groups", "update") :
        Invoke([fn |-> "update_component_group", obj |-> "components.groups",
                method |-> "update",
                id |-> id, api_url |-> api_url, api_token |-> api_token, kwargs |-> kwargs],
               update_component_group(id, api_url, api_token, kwargs, config, response))

DeleteComponentGroup ==
    /\ pc = "idle"
    /\ \E id \in Ids, api_url \in UrlOverrides, api_token \in TokenOverrides :
        Invoke([fn |-> "delete_component_group", id |-> id, api_url |-> api_url,
                api_token |-> api_token],
               delete_component_group(id, api_url, api_token, config, response))

GetIncidents ==
    /\ pc = "idle"
    /\ \E id \in OptionalIds, api_url \in UrlOverrides, api_token \in TokenOverrides :
        Invoke([fn |-> "get_incidents", id |-> id, api_url |-> api_url, api_token |-> api_token],
               get_incidents(id, api_url, api_token, config, response))

AddIncident ==
    /\ pc = "idle"
    /\ \E api_url \in UrlOverrides, api_token \in TokenOverrides,
       kwargs \in CatalogKwargs("incidents", "add") :
        Invoke([fn |-> "add_incident", obj |-> "incidents", method |-> "add",
                api_url |-> api_url, api_token |-> api_token, kwargs |-> kwargs],
               add_incident(api_url, api_token, kwargs, config, response))

UpdateIncident ==
    /\ pc = "idle"
    /\ \E id \in Ids, api_url \in UrlOverrides, api_token \in TokenOverrides,
       kwargs \in CatalogKwargs("incidents", "update") :
        Invoke([fn |-> "update_incident", obj |-> "incidents", method |-> "update",
                id |-> id, api_url |-> api_url, api_token |-> api_token, kwargs |-> kwargs],
               update_incident(id, api_url, api_token, kwargs, config, response))

DeleteIncident ==
    /\ pc = "idle"
    /\ \E id \in Ids, api_url \in UrlOverrides, api_token \in TokenOverrides :
        Invoke([fn |-> "delete_incident", id |-> id, api_url |-> api_url, api_token |-> api_token],
               delete_incident(id, api_url, api_token, config, response))

GetMetrics ==
    /\ pc = "idle"
    /\ \E id \in OptionalIds, api_url \in UrlOverrides, api_token \in TokenOverrides :
        Invoke([fn |-> "get_metrics", id |-> id, api_url |-> api_url, api_token |-> api_token],
               get_metrics(id, api_url, api_token, config, response))

AddMetric ==
    /\ pc = "idle"
    /\ \E api_url \in UrlOverrides, api_token \in TokenOverrides,
       kwargs \in CatalogKwargs("metrics", "add") :
        Invoke([fn |-> "add_metric", obj |-> "metrics", method |-> "add",
                api_url |-> api_url, api_token |-> api_token, kwargs |-> kwargs],
               add_metric(api_url, api_token, kwargs, config, response))

DeleteMetric ==
    /\ pc = "idle"
    /\ \E id \in Ids, api_url \in UrlOverrides, api_token \in TokenOverrides :
        Invoke([fn |-> "delete_metric", id |-> id, api_url |-> api_url, api_token |-> api_token],
               delete_metric(id, api_url, api_token, config, response))

GetMetricsPoints ==
    /\ pc = "idle"
    /\ \E metric_id \in Ids, id \in OptionalIds,
       api_url \in UrlOverrides, api_token \in TokenOverrides :
        Invoke([fn |-> "get_metrics_points", metric_id |-> metric_id, id |-> id,
                api_url |-> api_url, api_token |-> api_token],
               get_metrics_points(metric_id, id, api_url, api_token, config, response))

AddMetricPoint ==
    /\ pc = "idle"
    /\ \E metric_id \in Ids, api_url \in UrlOverrides, api_token \in TokenOverrides,
       kwargs \in CatalogKwargs("metrics.points", "add") :
        Invoke([fn |-> "add_metric_point", obj |-> "metrics.points", method |-> "add",
                metric_id |-> metric_id,
                api_url |-> api_url, api_token |-> api_token, kwargs |-> kwargs],
               add_metric_point(metric_id, api_url, api_token, kwargs, config, response))

DeleteMetricPoint ==
    /\ pc = "idle"
    /\ \E metric_id \in Ids, id \in Ids, api_url \in UrlOverrides, api_token \in TokenOverrides :
        Invoke([fn |-> "delete_metric_point", metric_id |-> metric_id, id |-> id,
                api_url |-> api_url, api_token |-> api_token],
               delete_metric_point(metric_id, id, api_url, api_token, config, response))

----------------------------------------------------------------------------
(* Specifications *)

\* one invocation of a resource operation
Init ==
    /\ pc = "idle"
    /\ config \in CatalogConfigs
    /\ response \in CatalogResponses
    /\ call = NoCall
    /\ requests = << >>
    /\ outcome = NoOutcome

Next ==
    \/ Ping
    \/ GetComponents
    \/ AddComponent
    \/ UpdateComponent
    \/ DeleteComponent
    \/ GetComponentsGroups
    \/ AddComponentGroup
    \/ UpdateComponentGroup
    \/ DeleteComponentGroup
    \/ GetIncidents
    \/ AddIncident
    \/ UpdateIncident
    \/ DeleteIncident
    \/ GetMetrics
    \/ AddMetric
    \/ DeleteMetric
    \/ GetMetricsPoints
    \/ AddMetricPoint
    \/ DeleteMetricPoint

Spec == Init /\ [][Next]_vars

\* one call of _build_args
InitBuild ==
    /\ pc = "idle"
    /\ config = ConfigWith({})
    /\ response = Result(FALSE, 0, FALSE, EmptyDict, FALSE)
    /\ call = NoCall
    /\ requests = << >>
    /\ outcome = NoOutcome

NextBuild == BuildArgs

SpecBuild == InitBuild /\ [][NextBuild]_vars

\* one call of _query
InitQuery ==
    /\ pc = "idle"
    /\ config \in Configs
    /\ response \in Responses
    /\ call = NoCall
    /\ requests = << >>
    /\ outcome = NoOutcome

NextQuery == Query

SpecQuery == InitQuery /\ [][NextQuery]_vars

----------------------------------------------------------------------------
(* Properties *)

Done == pc = "done"

\* the invocation is a call of fn
Called(fn) == Done /\ call.fn = fn

\* the invocation carries keyword arguments checked against a schema
HasKwargs == Done /\ "kwargs" \in DOMAIN call /\ HasSchema(call.obj, call.method)

SchemaOfCall == CACHET_PARAMS_DEFINITION[call.obj][call.method]

FieldNamed(fields, k) == fields[CHOOSE i \in 1..Len(fields) : fields[i].name = k]

MandatoryNames(fields) == {fields[i].name : i \in {j \in 1..Len(fields) : fields[j].mandatory}}

OptionalNames(fields) == FieldNames(fields) \ MandatoryNames(fields)

\* the optional fields whose declared default is truthy
TruthyDefaultNames(fields) ==
    {k \in OptionalNames(fields) :
        FieldNamed(fields, k).hasDefault /\ Truthy(FieldNamed(fields, k).default)}

\* the positions of the mandatory fields without default that kwargs omits
MissingPositions(fields, kwargs) ==
    {i \in 1..Len(fields) :
        fields[i].mandatory /\ ~fields[i].hasDefault /\ fields[i].name \notin DOMAIN kwargs}

FirstMissing(fields, kwargs) ==
    fields[CHOOSE i \in MissingPositions(fields, kwargs) :
              \A j \in MissingPositions(fields, kwargs) : i <= j].name

\* a returned dict saying failure
IsFailure(o) ==
    /\ o.kind = "return"
    /\ IsDict(o.value)
    /\ "res" \in DOMAIN o.value
    /\ o.value.res = PyBool(FALSE)

\* a returned dict saying success
IsSuccess(o) ==
    /\ o.kind = "return"
    /\ IsDict(o.value)
    /\ "res" \in DOMAIN o.value
    /\ o.value.res = PyBool(TRUE)

\* the configuration or the caller's override gives a base URL / a token
UrlResolvable ==
    \/ "api_url" \in DOMAIN call /\ Truthy(call.api_url)
    \/ Truthy(config["cachet.api_url"])
    \/ Truthy(config["cachet:api_url"])

TokenResolvable ==
    \/ "api_token" \in DOMAIN call /\ Truthy(call.api_token)
    \/ Truthy(config["cachet.api_token"])
    \/ Truthy(config["cachet:api_token"])

\* C1: for every (resource, operation) pair with a schema, _build_args called
\* with every mandatory field and no optional field returns success with an
\* argument set made of exactly the mandatory fields, with the supplied values,
\* and the optional fields whose default is truthy, set to that default.
C1_MandatoryOnlyArgs ==
    ( /\ Called("_build_args")
      /\ HasSchema(call.obj, call.method)
      /\ MandatoryNames(SchemaOfCall) \subseteq DOMAIN call.kwargs
      /\ DOMAIN call.kwargs \cap OptionalNames(SchemaOfCall) = {} )
    => outcome = Return([ res |-> PyBool(TRUE),
                          data |-> [ k \in MandatoryNames(SchemaOfCall)
                                           \cup TruthyDefaultNames(SchemaOfCall)
                                     |-> IF k \in MandatoryNames(SchemaOfCall)
                                         THEN call.kwargs[k]
                                         ELSE FieldNamed(SchemaOfCall, k).default ] ])

\* components/add with name and status only: enabled is added, order (default 0) is not
C1_Witness ==
    /\ Called("_build_args")
    /\ call.obj = "components" /\ call.method = "add"
    /\ DOMAIN call.kwargs = {"name", "status"}
    /\ call.kwargs["status"] = PyInt(0)
    /\ outcome.kind = "return"
    /\ outcome.value.res = PyBool(TRUE)
    /\ DOMAIN outcome.value.data = {"name", "status", "enabled"}

\* C2: when the supplied arguments omit a mandatory field that has no default,
\* the add/update operation returns the builder's failure, whose message names
\* the first such field in schema order, and no HTTP request is issued.
C2_MissingMandatoryFails ==
    ( /\ HasKwargs
      /\ MissingPositions(SchemaOfCall, call.kwargs) # {} )
    => /\ outcome = Return([ res |-> PyBool(FALSE),
                             message |-> MissingMessage(FirstMissing(SchemaOfCall, call.kwargs)) ])
       /\ requests = << >>

\* add_incident with only a name, URL and token configured: message is the first
\* missing field, status and the defaulted visible come after it
C2_Witness ==
    /\ Called("add_incident")
    /\ UrlResolvable /\ TokenResolvable
    /\ DOMAIN call.kwargs = {"name"}
    /\ IsFailure(outcome)
    /\ outcome.value.message = PyStr("Mandatory params message is missing")
    /\ requests = << >>

\* the component status an operation carries, when the caller supplies one
CarriesComponentStatus ==
    /\ Done
    /\ \/ call.fn \in {"add_component", "update_component"} /\ "status" \in DOMAIN call.kwargs
       \/ call.fn = "add_incident" /\ "component_status" \in DOMAIN call.kwargs

SuppliedComponentStatus ==
    IF call.fn = "add_incident" THEN call.kwargs["component_status"] ELSE call.kwargs["status"]

\* C3: in add_component, update_component and add_incident a supplied component
\* status that is an integer outside 1..4 issues no HTTP request, and once the
\* arguments are assembled the call ends in a fault.
C3_StatusOutOfRangeAborts ==
    ( /\ CarriesComponentStatus
      /\ SuppliedComponentStatus.t = "int"
      /\ SuppliedComponentStatus.v \notin 1..4 )
    => /\ requests = << >>
       /\ MissingPositions(SchemaOfCall, call.kwargs) = {} => outcome.kind = "raise"

\* C4: _query without a resolvable base URL, or requiring authentication
\* without a resolvable token, returns a failure with a message and issues no
\* request; without authentication a missing token does not stop the request.
C4_ConfigFailureNoRequest ==
    Called("_query") =>
        /\ (~UrlResolvable \/ (call.auth /\ ~TokenResolvable))
             => /\ IsFailure(outcome)
                /\ "message" \in DOMAIN outcome.value
                /\ Truthy(outcome.value.message)
                /\ requests = << >>
        /\ (UrlResolvable /\ ~call.auth) => Len(requests) = 1

\* a URL is configured under the colon spelling only, authentication is required
\* and no token can be found
C4_Witness ==
    /\ Called("_query")
    /\ ~Truthy(call.api_url)
    /\ ~Truthy(config["cachet.api_url"])
    /\ Truthy(config["cachet:api_url"])
    /\ call.auth /\ ~TokenResolvable
    /\ IsFailure(outcome)
    /\ requests = << >>

\* add_component with a name and a valid status only, URL and token taken
\* from the configuration
AddComponentNameStatus ==
    /\ Called("add_component")
    /\ DOMAIN call.kwargs = {"name", "status"}
    /\ call.kwargs["status"].v \in 1..4
    /\ call.api_url = PyNone /\ call.api_token = PyNone
    /\ UrlResolvable /\ TokenResolvable

\* the api_url and the api_token config.get yields
ApiUrlFromConfig == PyOr(config["cachet.api_url"], config["cachet:api_url"])
ApiTokenFromConfig == PyOr(config["cachet.api_token"], config["cachet:api_token"])

\* <url>/<path>: the text of url followed by the path
UrlFollowedBy(url, path) ==
    PyUrl(url.host,
          (IF url.segs # << >> /\ url.segs[Len(url.segs)] = ""
           THEN Front(url.segs) ELSE url.segs) \o path)

\* C5 as stated: add_component with only a name and a valid status issues one
\* POST to <api_url>/api/v1/components with arguments {name, status, order: 0,
\* enabled: true} and the header X-Cachet-Token set to the configured token.
C5_AddComponentSendsOrder ==
    AddComponentNameStatus =>
        /\ Len(requests) = 1
        /\ requests[1].method = "POST"
        /\ requests[1].url = UrlFollowedBy(ApiUrlFromConfig, <<"api", "v1", "components">>)
        /\ requests[1].params = [ name |-> call.kwargs["name"],
                                  status |-> call.kwargs["status"],
                                  order |-> PyInt(0),
                                  enabled |-> PyBool(TRUE) ]
        /\ "X-Cachet-Token" \in DOMAIN requests[1].header_dict
        /\ requests[1].header_dict["X-Cachet-Token"] = ApiTokenFromConfig

\* C5 amended: the POST goes to the path /api/v1/components on the host of the
\* configured api_url, with arguments {name, status, enabled: true} and the
\* header X-Cachet-Token set to the configured token.
C5_AddComponentRequest ==
    AddComponentNameStatus =>
        /\ Len(requests) = 1
        /\ requests[1].method = "POST"
        /\ requests[1].url = PyUrl(ApiUrlFromConfig.host, <<"api", "v1", "components">>)
        /\ requests[1].params = [ name |-> call.kwargs["name"],
                                  status |-> call.kwargs["status"],
                                  enabled |-> PyBool(TRUE) ]
        /\ requests[1].data = PyNone
        /\ requests[1].header_dict = ("X-Cachet-Token" :> ApiTokenFromConfig)

\* the api_url is configured with a path, the token under the dotted spelling
C5_Witness ==
    /\ AddComponentNameStatus
    /\ ApiUrlFromConfig = ConfiguredUrlColon
    /\ call.kwargs["status"] = PyInt(1)
    /\ Len(requests) = 1
    /\ DOMAIN requests[1].params = {"name", "status", "enabled"}
    /\ requests[1].header_dict["X-Cachet-Token"] = ConfiguredToken

\* _query issued its request and the transport answered 200 with a decoded body
Answered200 ==
    /\ Called("_query")
    /\ Len(requests) = 1
    /\ "status" \in DOMAIN response /\ response.status = OK
    /\ "dict" \in DOMAIN response

\* C6 as stated: on HTTP 200 a body with an error field gives a failure with
\* that message; otherwise a success whose message is the data field when
\* present and the whole decoded body when data is absent.
C6_WholeBodyWhenNoData ==
    Answered200 =>
        IF "error" \in DOMAIN response.dict
        THEN outcome = Return([message |-> response.dict.error, res |-> PyBool(FALSE)])
        ELSE outcome = Return([message |-> IF "data" \in DOMAIN response.dict
                                           THEN response.dict.data
                                           ELSE response.dict,
                               res |-> PyBool(TRUE)])

\* C6 amended: when data is absent the message of the success is None.
C6_NoneWhenNoData ==
    Answered200 =>
        IF "error" \in DOMAIN response.dict
        THEN outcome = Return([message |-> response.dict.error, res |-> PyBool(FALSE)])
        ELSE outcome = Return([message |-> IF "data" \in DOMAIN response.dict
                                           THEN response.dict.data
                                           ELSE PyNone,
                               res |-> PyBool(TRUE)])

\* a 200 whose body has neither error nor data
C6_Witness ==
    /\ Answered200
    /\ response.dict = [meta |-> PyStr("m")]
    /\ IsSuccess(outcome)
    /\ outcome.value.message = PyNone

\* _query issued its request and the transport answered a status other than 200, 204
AnsweredOtherStatus ==
    /\ Called("_query")
    /\ Len(requests) = 1
    /\ "status" \in DOMAIN response /\ response.status \notin {OK, NO_CONTENT}

\* C7: for a status other than 200 and 204 _query returns a failure, whose
\* message is the error field of the decoded response when there is one; it
\* returns no success and raises nothing.
C7_OtherStatusIsFailure ==
    AnsweredOtherStatus =>
        /\ IsFailure(outcome)
        /\ "message" \in DOMAIN outcome.value
        /\ ("dict" \in DOMAIN response /\ "error" \in DOMAIN response.dict)
              => outcome.value.message = response.dict.error

\* C8: whatever _query returns is a dict with a boolean res and a message, and
\* a 204 answer gives one with res true.
C8_UniformResult ==
    (Called("_query") /\ outcome.kind = "return") =>
        /\ IsDict(outcome.value)
        /\ DOMAIN outcome.value = {"res", "message"}
        /\ outcome.value.res \in {PyBool(TRUE), PyBool(FALSE)}
        /\ (Len(requests) = 1 /\ "status" \in DOMAIN response /\ response.status = NO_CONTENT)
              => outcome.value.res = PyBool(TRUE)

\* a status the caller supplies fails the range check of the operation
SuppliedStatusOutOfRange ==
    /\ "kwargs" \in DOMAIN call
    /\ \/ /\ call.fn \in {"add_component", "update_component"}
          /\ "status" \in DOMAIN call.kwargs
          /\ call.kwargs["status"].v \notin 1..4
       \/ /\ call.fn \in {"add_incident", "update_incident"}
          /\ "status" \in DOMAIN call.kwargs
          /\ call.kwargs["status"].v \notin 0..4
       \/ /\ call.fn = "add_incident"
          /\ "component_status" \in DOMAIN call.kwargs
          /\ call.kwargs["component_status"].v \notin 1..4

\* C9: every invocation of a catalog operation ends in a returned value, except
\* those in which a supplied status fails its range check.
C9_OnlyStatusFaults ==
    Done => \/ outcome.kind = "return"
            \/ outcome.kind = "raise" /\ SuppliedStatusOutOfRange

\* an update called with statuses in range, or none, and URL and token at hand
UpdateCall ==
    /\ Done
    /\ call.fn \in {"update_component", "update_incident", "update_component_group"}
    /\ ~SuppliedStatusOutOfRange
    /\ UrlResolvable /\ TokenResolvable

UpdatePath ==
    CASE call.fn = "update_component" -> <<"components", FormatD(call.id.v)>>
      [] call.fn = "update_incident" -> <<"incidents", FormatD(call.id.v)>>
      [] call.fn = "update_component_group" -> <<"components", "groups", FormatD(call.id.v)>>

\* C10: an update with an id and any subset of its optional fields, status
\* included or not, issues one PUT with the token header to the {id} path of
\* the resource, whose arguments are the supplied fields and the truthy
\* defaults of the absent ones.
C10_UpdateIssuesPut ==
    UpdateCall =>
        /\ Len(requests) = 1
        /\ requests[1].method = "PUT"
        /\ requests[1].url.segs = <<"api", "v1">> \o UpdatePath
        /\ "X-Cachet-Token" \in DOMAIN requests[1].header_dict
        /\ requests[1].params =
              [ k \in DOMAIN call.kwargs \cup TruthyDefaultNames(SchemaOfCall)
                |-> IF k \in DOMAIN call.kwargs
                    THEN call.kwargs[k]
                    ELSE FieldNamed(SchemaOfCall, k).default ]

\* a get operation called with a base URL at hand
GetCall ==
    /\ Done
    /\ call.fn \in {"get_components", "get_components_groups", "get_incidents",
                    "get_metrics", "get_metrics_points"}
    /\ UrlResolvable

\* the collection path of the resource a get operation reads
CollectionPath ==
    CASE call.fn = "get_components" -> <<"components">>
      [] call.fn = "get_components_groups" -> <<"components", "groups">>
      [] call.fn = "get_incidents" -> <<"incidents">>
      [] call.fn = "get_metrics" -> <<"metrics">>
      [] call.fn = "get_metrics_points" -> <<"metrics", FormatD(call.metric_id.v), "points">>

\* C11: each of the five get operations issues one GET, to the collection path
\* when called without an id and to the single-resource path of the id when
\* called with an integer id; for metric points the paths are
\* metrics/{metric_id}/points and metrics/{metric_id}/points/{id}.
C11_GetPaths ==
    GetCall =>
        /\ Len(requests) = 1
        /\ requests[1].method = "GET"
        /\ requests[1].url.segs =
              <<"api", "v1">> \o (IF call.id = PyNone
                                  THEN CollectionPath
                                  ELSE CollectionPath \o <<FormatD(call.id.v)>>)

====
